---- MODULE Spec2Model ----
(***************************************************************************)
(* A model of PyramidSolver.go: the game state of Pyramid Solitaire, the   *)
(* moves solveState generates, and the depth-first search itself with its  *)
(* call stack, the visited table and the early exit on a full clear.       *)
(*                                                                         *)
(* A card is the sequence of the characters of its token ("10s" is         *)
(* <<"1","0","s">>); the empty string "" of a removed slot is <<>>.  Rows   *)
(* and columns are 0-based as in the source; TLA+ sequences are 1-based,   *)
(* so slot (r,c) is pyramid[r+1][c+1].                                     *)
(***************************************************************************)
EXTENDS Integers, Sequences, FiniteSets, TLC

VARIABLES cards, stack, heap, visited, pc, result, pruning, prunedResult

vars == <<cards, stack, heap, visited, pc, result, pruning, prunedResult>>

(***************************************************************************)
(* Bounds.  The source builds 7 rows (28 slots) from a 52-card deal; the   *)
(* model builds NumRows rows and deals at most MaxDeck cards to the deck.  *)
(***************************************************************************)
NumRows == 3

MaxDeck == 2

\* The ranks the bounded deals are drawn from.
RankPool == {"a", "q", "k", "6", "7"}

\* The literal 28 of solveState and solvePyramidSolitaire, for NumRows rows.
TotalSlots == (NumRows * (NumRows + 1)) \div 2

\* The value of a King, removed alone.
KingValue == 13

\* The sum two cards must reach to be removed together.
PairSum == 13

\* A cap on the recursion depth that no run of the search reaches: between two
\* removals a path holds at most 2 * (MaxDeck + 1) draws and recycles.
MaxDepth == (TotalSlots + 1) * (2 * MaxDeck + 2) + 1

(***************************************************************************)
(* Cards                                                                   *)
(***************************************************************************)
ToLower(ch) ==
    CASE ch = "A" -> "a"
      [] ch = "J" -> "j"
      [] ch = "Q" -> "q"
      [] ch = "K" -> "k"
      [] ch = "C" -> "c"
      [] ch = "D" -> "d"
      [] ch = "H" -> "h"
      [] ch = "S" -> "s"
      [] OTHER -> ch

HasPrefix10(card) == Len(card) >= 2 /\ card[1] = "1" /\ card[2] = "0"

getCardValue(card) ==
    IF HasPrefix10(card) THEN 10
    ELSE LET rank == ToLower(card[1]) IN
         CASE rank = "a" -> 1
           [] rank = "2" -> 2
           [] rank = "3" -> 3
           [] rank = "4" -> 4
           [] rank = "5" -> 5
           [] rank = "6" -> 6
           [] rank = "7" -> 7
           [] rank = "8" -> 8
           [] rank = "9" -> 9
           [] rank = "j" -> 11
           [] rank = "q" -> 12
           [] rank = "k" -> 13
           [] OTHER -> 0

\* The display name of a card, as the words of "<Rank> of <Suit>".
formatCard(card) ==
    IF card = <<>> \/ card = <<"X", "X">> THEN <<"Empty">>
    ELSE LET rank == IF HasPrefix10(card) THEN "10" ELSE ToLower(card[1])
             suitChar == IF HasPrefix10(card)
                         THEN (IF Len(card) > 2 THEN card[3] ELSE "")
                         ELSE card[Len(card)]
             rankName == CASE rank = "a" -> "Ace"
                           [] rank = "j" -> "Jack"
                           [] rank = "q" -> "Queen"
                           [] rank = "k" -> "King"
                           [] OTHER -> rank
             suit == ToLower(suitChar)
             suitName == CASE suit = "c" -> "Clubs"
                           [] suit = "d" -> "Diamonds"
                           [] suit = "h" -> "Hearts"
                           [] suit = "s" -> "Spades"
                           [] OTHER -> suitChar
         IN <<rankName, "of", suitName>>

\* The deal hardcoded in main, in order.
cardSequence ==
    << <<"j","d">>, <<"6","h">>, <<"4","c">>, <<"6","c">>, <<"a","c">>, <<"3","h">>,
       <<"7","c">>, <<"2","h">>, <<"j","h">>, <<"1","0","s">>, <<"8","c">>, <<"a","h">>,
       <<"q","h">>, <<"3","d">>, <<"q","d">>, <<"2","d">>, <<"8","s">>, <<"q","c">>,
       <<"j","c">>, <<"4","h">>, <<"5","s">>, <<"j","s">>, <<"2","s">>, <<"3","c">>,
       <<"4","d">>, <<"7","h">>, <<"9","c">>, <<"5","h">>, <<"8","h">>, <<"a","s">>,
       <<"6","d">>, <<"k","d">>, <<"5","c">>, <<"k","c">>, <<"1","0","d">>, <<"8","d">>,
       <<"3","s">>, <<"9","h">>, <<"a","d">>, <<"k","h">>, <<"9","d">>, <<"q","s">>,
       <<"7","d">>, <<"4","s">>, <<"9","s">>, <<"1","0","h">>, <<"1","0","c">>, <<"k","s">>,
       <<"6","s">>, <<"5","d">>, <<"7","s">>, <<"2","c">> >>

InPool(card) == (IF HasPrefix10(card) THEN "10" ELSE card[1]) \in RankPool

\* The cards of the hardcoded deal whose rank is in the pool, in its order.
DeckPool == SelectSeq(cardSequence, InPool)

PoolSize == Len(DeckPool)

\* The strides that walk through every card of the pool before repeating one.
Strides == {s \in 1..(PoolSize - 1) : \A i \in 1..(PoolSize - 1) : (i * s) % PoolSize # 0}

Deal(start, stride, n) ==
    [i \in 1..n |-> DeckPool[((start + (i - 1) * stride) % PoolSize) + 1]]

\* The bounded inputs of solvePyramidSolitaire: distinct cards, TotalSlots for the
\* pyramid and up to MaxDeck for the deck.
Deals ==
    {Deal(start, stride, TotalSlots + n) :
        start \in 0..(PoolSize - 1), stride \in Strides, n \in 0..MaxDeck}

(***************************************************************************)
(* The pyramid                                                             *)
(***************************************************************************)
Slots == {rc \in (0..(NumRows - 1)) \X (0..(NumRows - 1)) : rc[2] <= rc[1]}

\* The rows from row r (1-based) on: row r holds the r cards after the first (r-1)r/2.
RECURSIVE BuildRows(_, _)
BuildRows(cs, r) ==
    IF r > NumRows THEN <<>>
    ELSE <<SubSeq(cs, ((r - 1) * r) \div 2 + 1, ((r - 1) * r) \div 2 + r)>>
            \o BuildRows(cs, r + 1)

\* A pyramid filled from the second card on, the first card coming last.
buildPyramidFromSecond(cs) == BuildRows(Tail(cs) \o <<cs[1]>>, 1)

buildPyramid(cs) == BuildRows(cs, 1)

\* An exposure test that is content with one removed card beneath.
ExposedIfEitherGone(pyramid, r, c) ==
    /\ pyramid[r + 1][c + 1] # <<>>
    /\ \/ r = Len(pyramid) - 1
       \/ (pyramid[r + 2][c + 1] = <<>> \/ pyramid[r + 2][c + 2] = <<>>)

\* An exposure test that looks at the left card beneath only.
ExposedIfLeftGone(pyramid, r, c) ==
    /\ pyramid[r + 1][c + 1] # <<>>
    /\ \/ r = Len(pyramid) - 1
       \/ pyramid[r + 2][c + 1] = <<>>

IsExposedAt(pyramid, r, c) ==
    /\ pyramid[r + 1][c + 1] # <<>>
    /\ \/ r = Len(pyramid) - 1
       \/ (pyramid[r + 2][c + 1] = <<>> /\ pyramid[r + 2][c + 2] = <<>>)

ExposedCard(pyramid, r, c) ==
    [row |-> r, col |-> c, card |-> pyramid[r + 1][c + 1],
     value |-> getCardValue(pyramid[r + 1][c + 1])]

\* The exposed cards of the rows from r on, each row from column c on, in scan order.
RECURSIVE ExposedFrom(_, _, _)
ExposedFrom(pyramid, r, c) ==
    IF r >= Len(pyramid) THEN <<>>
    ELSE IF c > r THEN ExposedFrom(pyramid, r + 1, 0)
    ELSE (IF IsExposedAt(pyramid, r, c) THEN <<ExposedCard(pyramid, r, c)>> ELSE <<>>)
            \o ExposedFrom(pyramid, r, c + 1)

getExposedCards(pyramid) == ExposedFrom(pyramid, 0, 0)

\* sort.Slice with less(i,j) = row[i] > row[j]: the slices sorted here hold at most
\* 12 elements, which Go sorts by insertion, so the cards of one row keep their scan
\* order.  The sorted slice is the cards of row r, then those of the rows above it.
\* The slice left as getExposedCards returned it.
Unsorted(exposed) == exposed

RECURSIVE RowsDownFrom(_, _)
RowsDownFrom(exposed, r) ==
    IF r < 0 THEN <<>>
    ELSE SelectSeq(exposed, LAMBDA e : e.row = r) \o RowsDownFrom(exposed, r - 1)

SortByRowDesc(exposed) == RowsDownFrom(exposed, NumRows - 1)

\* A count of the cards left instead of the cards removed.
countRemaining(pyramid) == Cardinality({rc \in Slots : pyramid[rc[1] + 1][rc[2] + 1] # <<>>})

countRemoved(pyramid) == Cardinality({rc \in Slots : pyramid[rc[1] + 1][rc[2] + 1] = <<>>})

isPyramidEmpty(pyramid) == \A rc \in Slots : pyramid[rc[1] + 1][rc[2] + 1] = <<>>

\* pyramid[row][col] = ""
ClearSlot(pyramid, row, col) == [pyramid EXCEPT ![row + 1][col + 1] = <<>>]

(***************************************************************************)
(* Game states.  A GameState is passed by value, but its Pyramid is a      *)
(* reference to rows that a callee could write to: the model keeps the     *)
(* pyramids in a heap and a GameState holds the address of its pyramid.    *)
(* Deck, Waste and Moves are only ever re-sliced or appended to at full    *)
(* capacity, so they are values.                                           *)
(***************************************************************************)
Pyr(h, state) == h[state.Pyramid]

\* The smallest address the heap does not use.
NewAddr(h) == CHOOSE a \in 1..(Cardinality(DOMAIN h) + 1) : a \notin DOMAIN h

\* The heap without the objects no frame of the stack refers to.
RECURSIVE Collect(_, _)
Collect(h, stk) ==
    IF stk = <<>> THEN <<>>
    ELSE (stk[1].state.Pyramid :> h[stk[1].state.Pyramid]) @@ Collect(h, Tail(stk))

\* A copy of the state that shares the caller's pyramid rows.
ShallowCloneState(h, state) == [heap |-> h, state |-> state]

RECURSIVE CloneRows(_, _)
CloneRows(pyramid, r) ==
    IF r > Len(pyramid) THEN <<>>
    ELSE <<SubSeq(pyramid[r], 1, Len(pyramid[r]))>> \o CloneRows(pyramid, r + 1)

clonePyramid(pyramid) == CloneRows(pyramid, 1)

cloneState(h, state) ==
    LET a == NewAddr(h) IN
    [heap |-> (a :> clonePyramid(h[state.Pyramid])) @@ h,
     state |-> [Pyramid |-> a, Deck |-> state.Deck, Waste |-> state.Waste,
                Moves |-> state.Moves]]

(***************************************************************************)
(* serializeState                                                          *)
(***************************************************************************)
RECURSIVE Join(_, _)
Join(cs, sep) ==
    IF cs = <<>> THEN <<>>
    ELSE IF Len(cs) = 1 THEN cs[1]
    ELSE cs[1] \o <<sep>> \o Join(Tail(cs), sep)

RECURSIVE XXRow(_)
XXRow(row) ==
    IF row = <<>> THEN <<>>
    ELSE <<IF row[1] = <<>> THEN <<"X", "X">> ELSE row[1]>> \o XXRow(Tail(row))

RECURSIVE SerializeRows(_)
SerializeRows(rows) ==
    IF rows = <<>> THEN <<>>
    ELSE Join(XXRow(rows[1]), ",")
            \o (IF Len(rows) > 1 THEN <<";">> ELSE <<>>)
            \o SerializeRows(Tail(rows))

\* A key of the pyramid alone.
SerializePyramidOnly(pyramid, deck, waste) == SerializeRows(pyramid)

\* A key that leaves the waste out.
SerializeNoWaste(pyramid, deck, waste) ==
    SerializeRows(pyramid) \o <<"|">> \o Join(deck, ",") \o <<"|">>

Serialize(pyramid, deck, waste) ==
    SerializeRows(pyramid) \o <<"|">> \o Join(deck, ",") \o <<"|">> \o Join(waste, ",")

serializeState(h, state) == Serialize(Pyr(h, state), state.Deck, state.Waste)

(***************************************************************************)
(* The move log.  A move is the record of what its fmt.Sprintf prints: the *)
(* kind of sentence, the formatted card names and the coordinates.         *)
(***************************************************************************)
NoName == <<>>

Move(kind, n1, r1, c1, n2, r2, c2) ==
    [kind |-> kind, card1 |-> n1, row1 |-> r1, col1 |-> c1,
     card2 |-> n2, row2 |-> r2, col2 |-> c2]

\* 1a: remove an exposed King.
KingChild(h, state, exp) ==
    LET cl == cloneState(h, state) IN
    [heap |-> [cl.heap EXCEPT ![cl.state.Pyramid] = ClearSlot(@, exp.row, exp.col)],
     state |-> [cl.state EXCEPT !.Moves =
                    Append(@, Move("Remove", formatCard(exp.card), exp.row, exp.col,
                                   NoName, 0, 0))]]

\* 1b: remove two exposed cards.
PairChild(h, state, e1, e2) ==
    LET cl == cloneState(h, state) IN
    [heap |-> [cl.heap EXCEPT ![cl.state.Pyramid] =
                    ClearSlot(ClearSlot(@, e1.row, e1.col), e2.row, e2.col)],
     state |-> [cl.state EXCEPT !.Moves =
                    Append(@, Move("Remove pair", formatCard(e1.card), e1.row, e1.col,
                                   formatCard(e2.card), e2.row, e2.col))]]

\* A waste pairing that lays the waste top on the slot of the card it removes.
WasteCardIntoSlot(h, state, exp) ==
    LET cl == cloneState(h, state)
        topWaste == state.Waste[Len(state.Waste)]
    IN
    [heap |-> [cl.heap EXCEPT ![cl.state.Pyramid][exp.row + 1][exp.col + 1] = topWaste],
     state |-> [cl.state EXCEPT
                    !.Waste = SubSeq(@, 1, Len(@) - 1),
                    !.Moves = Append(@, Move("Remove waste", formatCard(topWaste), 0, 0,
                                             formatCard(exp.card), exp.row, exp.col))]]

\* A waste pairing that takes the oldest card off the waste instead of the top.
WasteDropsBottom(h, state, exp) ==
    LET cl == cloneState(h, state)
        topWaste == state.Waste[Len(state.Waste)]
    IN
    [heap |-> [cl.heap EXCEPT ![cl.state.Pyramid] = ClearSlot(@, exp.row, exp.col)],
     state |-> [cl.state EXCEPT
                    !.Waste = Tail(@),
                    !.Moves = Append(@, Move("Remove waste", formatCard(topWaste), 0, 0,
                                             formatCard(exp.card), exp.row, exp.col))]]

\* 2: remove the waste top with an exposed card.
WasteChild(h, state, exp) ==
    LET cl == cloneState(h, state)
        topWaste == state.Waste[Len(state.Waste)]
    IN
    [heap |-> [cl.heap EXCEPT ![cl.state.Pyramid] = ClearSlot(@, exp.row, exp.col)],
     state |-> [cl.state EXCEPT
                    !.Waste = SubSeq(@, 1, Len(@) - 1),
                    !.Moves = Append(@, Move("Remove waste", formatCard(topWaste), 0, 0,
                                             formatCard(exp.card), exp.row, exp.col))]]

\* A draw that puts a drawn King on the waste like any other card.
DrawKingToWaste(h, state) ==
    LET cl == cloneState(h, state)
        drawn == cl.state.Deck[1]
    IN
    [heap |-> cl.heap,
     state |-> [cl.state EXCEPT
                    !.Deck = Tail(@),
                    !.Waste = Append(@, drawn),
                    !.Moves = Append(@, Move(IF getCardValue(drawn) = KingValue
                                             THEN "Draw and remove King" ELSE "Draw",
                                             formatCard(drawn), 0, 0, NoName, 0, 0))]]

\* 3: draw the front card of the deck; a King is dropped, any other card goes on the waste.
DrawChild(h, state) ==
    LET cl == cloneState(h, state)
        drawn == cl.state.Deck[1]
    IN
    IF getCardValue(drawn) = KingValue
    THEN [heap |-> cl.heap,
          state |-> [cl.state EXCEPT
                        !.Deck = Tail(@),
                        !.Moves = Append(@, Move("Draw and remove King", formatCard(drawn),
                                                 0, 0, NoName, 0, 0))]]
    ELSE [heap |-> cl.heap,
          state |-> [cl.state EXCEPT
                        !.Deck = Tail(@),
                        !.Waste = Append(@, drawn),
                        !.Moves = Append(@, Move("Draw", formatCard(drawn),
                                                 0, 0, NoName, 0, 0))]]

RECURSIVE Reverse(_)
Reverse(s) == IF s = <<>> THEN <<>> ELSE Append(Reverse(Tail(s)), s[1])

\* A recycle that keeps the order of the waste.
RecycleNoReverse(h, state) ==
    LET cl == cloneState(h, state) IN
    [heap |-> cl.heap,
     state |-> [cl.state EXCEPT
                    !.Deck = cl.state.Waste,
                    !.Waste = <<>>,
                    !.Moves = Append(@, Move("Recycle", NoName, 0, 0, NoName, 0, 0))]]

\* A recycle that forgets to empty the waste.
RecycleKeepsWaste(h, state) ==
    LET cl == cloneState(h, state) IN
    [heap |-> cl.heap,
     state |-> [cl.state EXCEPT
                    !.Deck = Reverse(cl.state.Waste),
                    !.Moves = Append(@, Move("Recycle", NoName, 0, 0, NoName, 0, 0))]]

\* 4: the waste, reversed, becomes the deck.
RecycleChild(h, state) ==
    LET cl == cloneState(h, state) IN
    [heap |-> cl.heap,
     state |-> [cl.state EXCEPT
                    !.Deck = Reverse(cl.state.Waste),
                    !.Waste = <<>>,
                    !.Moves = Append(@, Move("Recycle", NoName, 0, 0, NoName, 0, 0))]]

(***************************************************************************)
(* solveState.  A frame of the call stack holds the callee's state, its    *)
(* bestResult, the sorted exposed cards computed on entry, and the place   *)
(* the frame has reached: the loop it is in (phase) and the loop indices   *)
(* (1-based) of the next iteration; calls counts the recursive calls the   *)
(* frame has made.                                                         *)
(***************************************************************************)
Result(moves, removed) == [Moves |-> moves, RemovedCount |-> removed]

NoResult == Result(<<>>, -1)

\* The visited check that never prunes.
NeverPruned(vis, key, curRemoved) == FALSE

\* A visited check that reads a missing entry as its zero value.
PrunedOrZero(vis, key, curRemoved) == key \in DOMAIN vis \/ 0 >= curRemoved

\* A visited check that prunes only on a strictly larger stored count.
PrunedIfGreater(vis, key, curRemoved) == key \in DOMAIN vis /\ vis[key] > curRemoved

\* val, ok := visited[key]; ok && val >= curRemoved
Pruned(vis, key, curRemoved) == key \in DOMAIN vis /\ vis[key] >= curRemoved

\* visited[key] = curRemoved
Record(vis, key, curRemoved) ==
    (key :> curRemoved) @@ vis

Frame(state, best, exposed, phase) ==
    [state |-> state, bestResult |-> best, exposed |-> exposed, phase |-> phase,
     i |-> 1, j |-> 2, calls |-> 0]

\* The entry of solveState up to the first loop: the frame the call starts with and
\* the visited table it leaves.  prune is FALSE in the search without pruning.
Enter(h, state, vis, prune) ==
    LET curRemoved == countRemoved(Pyr(h, state))
        best == Result(state.Moves, curRemoved)
        key == serializeState(h, state)
    IN
    IF isPyramidEmpty(Pyr(h, state))
    THEN [frame |-> Frame(state, best, <<>>, "terminal"), visited |-> vis]
    ELSE IF prune /\ Pruned(vis, key, curRemoved)
    THEN [frame |-> Frame(state, best, <<>>, "pruned"), visited |-> vis]
    ELSE [frame |-> Frame(state, best, SortByRowDesc(getExposedCards(Pyr(h, state))), "kings"),
          visited |-> Record(vis, key, curRemoved)]

\* The iterations left in loop 1a, 1b and 2 of a frame.
KingsLeft(f) ==
    IF f.phase = "kings"
    THEN {k \in f.i..Len(f.exposed) : f.exposed[k].value = KingValue}
    ELSE {}

PairsLeft(f) ==
    IF f.phase \in {"kings", "pairs"}
    THEN {ij \in (1..Len(f.exposed)) \X (1..Len(f.exposed)) :
            /\ ij[1] < ij[2]
            /\ f.exposed[ij[1]].value + f.exposed[ij[2]].value = PairSum
            /\ \/ f.phase = "kings"
               \/ ij[1] > f.i
               \/ (ij[1] = f.i /\ ij[2] >= f.j)}
    ELSE {}

WasteLeft(f) ==
    IF f.phase \in {"kings", "pairs", "waste"} /\ Len(f.state.Waste) > 0
    THEN {k \in 1..Len(f.exposed) :
            /\ getCardValue(f.state.Waste[Len(f.state.Waste)]) + f.exposed[k].value = PairSum
            /\ (f.phase = "waste" => k >= f.i)}
    ELSE {}

DrawLeft(f) == f.phase \in {"kings", "pairs", "waste", "draw"} /\ Len(f.state.Deck) > 0

RecycleLeft(f) ==
    /\ f.phase \in {"kings", "pairs", "waste", "draw", "recycle"}
    /\ Len(f.state.Deck) = 0
    /\ Len(f.state.Waste) > 0

MinOf(S) == CHOOSE k \in S : \A m \in S : k <= m

MinPair(S) == CHOOSE a \in S : \A b \in S : a[1] < b[1] \/ (a[1] = b[1] /\ a[2] <= b[2])

\* The next child the frame calls solveState on, in the order of the source.
NextMove(f) ==
    IF f.phase \in {"terminal", "pruned", "exit", "end"} THEN [kind |-> "none"]
    ELSE IF KingsLeft(f) # {} THEN [kind |-> "king", i |-> MinOf(KingsLeft(f))]
    ELSE IF PairsLeft(f) # {}
         THEN [kind |-> "pair", i |-> MinPair(PairsLeft(f))[1], j |-> MinPair(PairsLeft(f))[2]]
    ELSE IF WasteLeft(f) # {} THEN [kind |-> "waste", i |-> MinOf(WasteLeft(f))]
    ELSE IF DrawLeft(f) THEN [kind |-> "draw"]
    ELSE IF RecycleLeft(f) THEN [kind |-> "recycle"]
    ELSE [kind |-> "none"]

\* A merge that takes the child's result when it only ties.
KeepLater(best, res) == IF res.RemovedCount >= best.RemovedCount THEN res ELSE best

\* A merge that takes the child's count and keeps its own moves.
KeepCountOnly(best, res) ==
    IF res.RemovedCount > best.RemovedCount
    THEN Result(best.Moves, res.RemovedCount)
    ELSE best

\* if res.RemovedCount > bestResult.RemovedCount { bestResult = res }
KeepBest(best, res) == IF res.RemovedCount > best.RemovedCount THEN res ELSE best

\* An early exit that never fires.
NoEarlyExit(best) == FALSE

\* if bestResult.RemovedCount == 28 { return bestResult }
EarlyExit(best) == best.RemovedCount = TotalSlots

Top == stack[Len(stack)]

Running == pc = "run" /\ Len(stack) > 0

\* The frames of the stack that are the same matter (pyramid, deck, waste) as the state.
SameMatter(h, s, t) ==
    Pyr(h, s) = Pyr(h, t) /\ s.Deck = t.Deck /\ s.Waste = t.Waste

\* The caller moves on to (phase, i, j) and calls solveState on the child.  The
\* search without pruning recurses for ever once a call repeats a state of its own
\* call chain: the run ends in a stack overflow.
Call(phase, i, j, child) ==
    /\ Len(stack) < MaxDepth
    /\ IF ~pruning /\ \E d \in 1..Len(stack) : SameMatter(child.heap, stack[d].state, child.state)
       THEN /\ pc' = "overflow"
            /\ stack' = <<>>
            /\ heap' = <<>>
            /\ UNCHANGED visited
       ELSE \E e \in {Enter(child.heap, child.state, visited, pruning)} :
            /\ stack' = Append([stack EXCEPT ![Len(stack)] =
                                   [Top EXCEPT !.phase = phase, !.i = i, !.j = j,
                                               !.calls = @ + 1]],
                               e.frame)
            /\ heap' = child.heap
            /\ visited' = e.visited
            /\ UNCHANGED pc
    /\ UNCHANGED <<cards, result, pruning, prunedResult>>

\* solvePyramidSolitaire up to and including the entry of the root call.
Solve ==
    /\ pc = "start"
    /\ \E pyramid \in {buildPyramid(cards)} :
       \E e \in {Enter((1 :> pyramid),
                       [Pyramid |-> 1,
                        Deck |-> SubSeq(cards, TotalSlots + 1, Len(cards)),
                        Waste |-> <<>>, Moves |-> <<>>],
                       <<>>, pruning)} :
          /\ heap' = (1 :> pyramid)
          /\ stack' = <<e.frame>>
          /\ visited' = e.visited
    /\ pc' = "run"
    /\ UNCHANGED <<cards, result, pruning, prunedResult>>

RemoveKing ==
    /\ Running
    /\ \E m \in {NextMove(Top)} :
          /\ m.kind = "king"
          /\ \E child \in {KingChild(heap, Top.state, Top.exposed[m.i])} :
                Call("kings", m.i + 1, 2, child)

RemovePair ==
    /\ Running
    /\ \E m \in {NextMove(Top)} :
          /\ m.kind = "pair"
          /\ \E child \in {PairChild(heap, Top.state, Top.exposed[m.i], Top.exposed[m.j])} :
                Call("pairs", m.i, m.j + 1, child)

RemoveWaste ==
    /\ Running
    /\ \E m \in {NextMove(Top)} :
          /\ m.kind = "waste"
          /\ \E child \in {WasteChild(heap, Top.state, Top.exposed[m.i])} :
                Call("waste", m.i + 1, 2, child)

Draw ==
    /\ Running
    /\ NextMove(Top).kind = "draw"
    /\ \E child \in {DrawChild(heap, Top.state)} : Call("recycle", 1, 2, child)

Recycle ==
    /\ Running
    /\ NextMove(Top).kind = "recycle"
    /\ \E child \in {RecycleChild(heap, Top.state)} : Call("end", 1, 2, child)

\* A call returns to its caller, which compares the result and may exit early.
Return ==
    /\ Running
    /\ Len(stack) > 1
    /\ NextMove(Top).kind = "none"
    /\ \E best \in {KeepBest(stack[Len(stack) - 1].bestResult, Top.bestResult)} :
       \E stk \in {[SubSeq(stack, 1, Len(stack) - 1) EXCEPT ![Len(stack) - 1] =
                      [@ EXCEPT !.bestResult = best,
                                !.phase = IF EarlyExit(best) THEN "exit" ELSE @]]} :
          /\ stack' = stk
          /\ heap' = Collect(heap, stk)
    /\ UNCHANGED <<cards, visited, pc, result, pruning, prunedResult>>

\* The root call returns to solvePyramidSolitaire, which returns its result.
Finish ==
    /\ Running
    /\ Len(stack) = 1
    /\ NextMove(Top).kind = "none"
    /\ result' = Top.bestResult
    /\ stack' = <<>>
    /\ heap' = <<>>
    /\ pc' = "done"
    /\ UNCHANGED <<cards, visited, pruning, prunedResult>>

Init ==
    /\ cards \in Deals
    /\ stack = <<>>
    /\ heap = <<>>
    /\ visited = <<>>
    /\ pc = "start"
    /\ result = NoResult
    /\ pruning = TRUE
    /\ prunedResult = NoResult

Next ==
    \/ Solve
    \/ RemoveKing
    \/ RemovePair
    \/ RemoveWaste
    \/ Draw
    \/ Recycle
    \/ Return
    \/ Finish

Spec == Init /\ [][Next]_vars

\* solveState runs to completion: nothing but its own steps schedules it.
FairSpec == Spec /\ WF_vars(Next)

(***************************************************************************)
(* The search without the visited pruning, run on the same deal after the  *)
(* search with it: step 3 of solveState records the state and never        *)
(* returns early.                                                          *)
(***************************************************************************)
Restart ==
    /\ pc = "done"
    /\ pruning
    /\ prunedResult' = result
    /\ pruning' = FALSE
    /\ pc' = "start"
    /\ visited' = <<>>
    /\ result' = NoResult
    /\ UNCHANGED <<cards, stack, heap>>

NextNoPrune == Next \/ Restart

SpecNoPrune == Init /\ [][NextNoPrune]_vars

(***************************************************************************)
(* The rules of the game, stated on plain (pyramid, deck, waste) triples,  *)
(* independently of the search: what the claims compare the search with.   *)
(***************************************************************************)
Matter(pyramid, deck, waste) == [Pyramid |-> pyramid, Deck |-> deck, Waste |-> waste]

MatterOf(h, state) == Matter(Pyr(h, state), state.Deck, state.Waste)

InitialMatter == Matter(buildPyramid(cards), SubSeq(cards, TotalSlots + 1, Len(cards)), <<>>)

CardAt(pyramid, rc) == pyramid[rc[1] + 1][rc[2] + 1]

Occupied(pyramid, rc) == rc \in Slots /\ CardAt(pyramid, rc) # <<>>

\* Occupied, and on the bottom row or with both cards beneath it removed.
RuleExposed(pyramid, rc) ==
    /\ Occupied(pyramid, rc)
    /\ \/ rc[1] = NumRows - 1
       \/ /\ ~Occupied(pyramid, <<rc[1] + 1, rc[2]>>)
          /\ ~Occupied(pyramid, <<rc[1] + 1, rc[2] + 1>>)

Without(pyramid, rc) == [pyramid EXCEPT ![rc[1] + 1][rc[2] + 1] = <<>>]

EmptySlots(pyramid) == Cardinality({rc \in Slots : ~Occupied(pyramid, rc)})

\* The states one move away: King, pair, waste pairing, draw, recycle.
Successors(t) ==
    LET ex == {rc \in Slots : RuleExposed(t.Pyramid, rc)}
        val(rc) == getCardValue(CardAt(t.Pyramid, rc))
    IN
    {Matter(Without(t.Pyramid, rc), t.Deck, t.Waste) : rc \in {x \in ex : val(x) = KingValue}}
    \cup {Matter(Without(Without(t.Pyramid, ab[1]), ab[2]), t.Deck, t.Waste) :
            ab \in {xy \in ex \X ex : xy[1] # xy[2] /\ val(xy[1]) + val(xy[2]) = PairSum}}
    \cup (IF t.Waste = <<>> THEN {}
          ELSE {Matter(Without(t.Pyramid, rc), t.Deck, SubSeq(t.Waste, 1, Len(t.Waste) - 1)) :
                  rc \in {x \in ex : val(x) + getCardValue(t.Waste[Len(t.Waste)]) = PairSum}})
    \cup (IF t.Deck = <<>> THEN {}
          ELSE IF getCardValue(t.Deck[1]) = KingValue
               THEN {Matter(t.Pyramid, Tail(t.Deck), t.Waste)}
               ELSE {Matter(t.Pyramid, Tail(t.Deck), Append(t.Waste, t.Deck[1]))})
    \cup (IF t.Deck = <<>> /\ t.Waste # <<>>
          THEN {Matter(t.Pyramid, Reverse(t.Waste), <<>>)}
          ELSE {})

RECURSIVE ReachFrom(_, _)
ReachFrom(frontier, seen) ==
    IF frontier = {} THEN seen
    ELSE LET new == (UNION {Successors(t) : t \in frontier}) \ seen
         IN ReachFrom(new, seen \cup new)

\* Every state some finite sequence of moves reaches from the initial deal.
Reachable == ReachFrom({InitialMatter}, {InitialMatter})

MaxOf(S) == CHOOSE k \in S : \A m \in S : k >= m

MaxRemovable == MaxOf({EmptySlots(t.Pyramid) : t \in Reachable})

\* One logged move replayed on a triple, from what the log line says.
ApplyMove(t, m) ==
    CASE m.kind = "Remove" -> Matter(Without(t.Pyramid, <<m.row1, m.col1>>), t.Deck, t.Waste)
      [] m.kind = "Remove pair" ->
            Matter(Without(Without(t.Pyramid, <<m.row1, m.col1>>), <<m.row2, m.col2>>),
                   t.Deck, t.Waste)
      [] m.kind = "Remove waste" ->
            Matter(Without(t.Pyramid, <<m.row2, m.col2>>), t.Deck,
                   SubSeq(t.Waste, 1, Len(t.Waste) - 1))
      [] m.kind = "Draw and remove King" -> Matter(t.Pyramid, Tail(t.Deck), t.Waste)
      [] m.kind = "Draw" -> Matter(t.Pyramid, Tail(t.Deck), Append(t.Waste, t.Deck[1]))
      [] m.kind = "Recycle" -> Matter(t.Pyramid, Reverse(t.Waste), <<>>)

RECURSIVE Replay(_, _)
Replay(t, moves) ==
    IF moves = <<>> THEN t ELSE Replay(ApplyMove(t, moves[1]), Tail(moves))

LastMove(state) == state.Moves[Len(state.Moves)]

\* The frames d and d+1 of the stack: a caller and the child it is exploring.
Calls == 1..(Len(stack) - 1)

(***************************************************************************)
(* C1: the RemovedCount solve returns is the largest number of empty       *)
(* pyramid slots of any state reachable from the initial deal by the five  *)
(* moves.                                                                  *)
(***************************************************************************)
C1_ReturnsMaximum ==
    (pc = "done" /\ pruning) => result.RemovedCount = MaxRemovable

\* A finished search of many states that ended short of a full clear.
C1_Witness ==
    /\ pc = "done"
    /\ pruning
    /\ result.RemovedCount > 0
    /\ result.RemovedCount < TotalSlots
    /\ Cardinality(DOMAIN visited) >= 10

(***************************************************************************)
(* C2: along every explored path each removal is of occupied, exposed      *)
(* slots of the state just before it: a single card is a King, a pair is   *)
(* two distinct exposed slots summing to 13, a waste pairing is the waste  *)
(* top and one exposed card summing to 13; and the child is that state     *)
(* with exactly the logged move applied.                                   *)
(***************************************************************************)
LegalMove(t, m) ==
    CASE m.kind = "Remove" ->
            /\ RuleExposed(t.Pyramid, <<m.row1, m.col1>>)
            /\ getCardValue(CardAt(t.Pyramid, <<m.row1, m.col1>>)) = 13
      [] m.kind = "Remove pair" ->
            /\ RuleExposed(t.Pyramid, <<m.row1, m.col1>>)
            /\ RuleExposed(t.Pyramid, <<m.row2, m.col2>>)
            /\ <<m.row1, m.col1>> # <<m.row2, m.col2>>
            /\ getCardValue(CardAt(t.Pyramid, <<m.row1, m.col1>>))
                 + getCardValue(CardAt(t.Pyramid, <<m.row2, m.col2>>)) = 13
      [] m.kind = "Remove waste" ->
            /\ t.Waste # <<>>
            /\ RuleExposed(t.Pyramid, <<m.row2, m.col2>>)
            /\ getCardValue(t.Waste[Len(t.Waste)])
                 + getCardValue(CardAt(t.Pyramid, <<m.row2, m.col2>>)) = 13
      [] OTHER -> TRUE

C2_MovesLegal ==
    \A d \in Calls :
        LET t == MatterOf(heap, stack[d].state)
            m == LastMove(stack[d + 1].state)
        IN /\ LegalMove(t, m)
           /\ MatterOf(heap, stack[d + 1].state) = ApplyMove(t, m)

\* One path that holds a King removal, a pair removal and a waste pairing.
C2_Witness ==
    /\ \E d \in Calls : LastMove(stack[d + 1].state).kind = "Remove"
    /\ \E d \in Calls : LastMove(stack[d + 1].state).kind = "Remove pair"
    /\ \E d \in Calls : LastMove(stack[d + 1].state).kind = "Remove waste"

(***************************************************************************)
(* C3: replaying the returned Moves from the initial state reaches a       *)
(* pyramid with exactly RemovedCount empty slots; with RemovedCount equal  *)
(* to the number of slots the replay leaves the pyramid empty.             *)
(***************************************************************************)
C3_ResultMatchesMoves ==
    pc = "done" =>
        LET final == Replay(InitialMatter, result.Moves) IN
        /\ EmptySlots(final.Pyramid) = result.RemovedCount
        /\ (result.RemovedCount = TotalSlots => \A rc \in Slots : ~Occupied(final.Pyramid, rc))

\* A full clear that needed the deck.
C3_Witness ==
    /\ pc = "done"
    /\ result.RemovedCount = TotalSlots
    /\ \E k \in 1..Len(result.Moves) : result.Moves[k].kind = "Remove waste"

(***************************************************************************)
(* C4: solve terminates and returns a RemovedCount between 0 and the       *)
(* number of slots; the draw/recycle cycle does not keep the recursion     *)
(* going, whose depth stays below MaxDepth.                                *)
(***************************************************************************)
C4_Terminates ==
    /\ [](Len(stack) < MaxDepth)
    /\ <>(pc = "done" /\ result.RemovedCount \in 0..TotalSlots)

\* A recycle has led back to a state already in the visited table.
C4_Witness ==
    /\ Running
    /\ Top.phase = "pruned"
    /\ LastMove(Top.state).kind = "Recycle"
    /\ \E d \in Calls : SameMatter(heap, stack[d].state, Top.state)

(***************************************************************************)
(* C5: on the same deal the search without pruning, when it returns,       *)
(* returns no larger a RemovedCount than the search with pruning.          *)
(***************************************************************************)
C5_PruningLosesNothing ==
    (pc = "done" /\ ~pruning) => result.RemovedCount <= prunedResult.RemovedCount

\* The search without pruning returned after drawing and removing cards.
C5_Witness ==
    /\ pc = "done"
    /\ ~pruning
    /\ result.RemovedCount > 0
    /\ \E k \in 1..Len(result.Moves) : result.Moves[k].kind = "Draw"
    /\ Cardinality(DOMAIN visited) >= 5

(***************************************************************************)
(* C6: once a call has returned a Result with RemovedCount equal to the    *)
(* number of slots, every step is an enclosing frame returning that very   *)
(* Result: no child is generated, the visited table gains no entry, and    *)
(* solve returns it.                                                       *)
(***************************************************************************)
FullClearFound ==
    /\ Running
    /\ \E d \in 1..Len(stack) : stack[d].bestResult.RemovedCount = TotalSlots

C6_EarlyExit ==
    [][FullClearFound =>
        /\ Top.bestResult.RemovedCount = TotalSlots
        /\ Len(stack') = Len(stack) - 1
        /\ visited' = visited
        /\ IF Len(stack') > 0
           THEN stack'[Len(stack')].bestResult = Top.bestResult
           ELSE pc' = "done" /\ result' = Top.bestResult]_vars

\* A full clear is on its way up past a frame that had children left to explore.
C6_Witness ==
    /\ FullClearFound
    /\ \E d \in Calls :
          /\ stack[d].bestResult.RemovedCount < TotalSlots
          /\ NextMove(stack[d]).kind # "none"

(***************************************************************************)
(* C7: the visited key is a function of (Pyramid, Deck, Waste) alone and   *)
(* an injective one: states on the stack share a key exactly when they     *)
(* share these three, whatever their Moves; a state that arrives with the  *)
(* three of an entered state finds that state's entry and is pruned        *)
(* without being expanded; and over all reachable states distinct triples  *)
(* have distinct keys, every entry of the table being the key of one.      *)
(***************************************************************************)
KeyOf(t) == Serialize(t.Pyramid, t.Deck, t.Waste)

C7_KeyIsTheTriple ==
    /\ \A d \in 1..Len(stack) : \A e \in 1..Len(stack) :
          (serializeState(heap, stack[d].state) = serializeState(heap, stack[e].state))
              <=> SameMatter(heap, stack[d].state, stack[e].state)
    /\ \A d \in 1..Len(stack) : \A e \in (d + 1)..Len(stack) :
          (pruning /\ SameMatter(heap, stack[d].state, stack[e].state)) =>
              /\ stack[e].state.Moves # stack[d].state.Moves
              /\ stack[e].phase \in {"pruned", "terminal"}
              /\ stack[e].exposed = <<>>
    /\ (Running /\ Top.phase = "pruned") =>
          /\ serializeState(heap, Top.state) \in DOMAIN visited
          /\ NextMove(Top).kind = "none"
    /\ pc = "done" =>
          /\ Cardinality({KeyOf(t) : t \in Reachable}) = Cardinality(Reachable)
          /\ DOMAIN visited \subseteq {KeyOf(t) : t \in Reachable}

\* A state is pruned whose twin is not on the stack: it was entered before by
\* another sequence of moves.
C7_Witness ==
    /\ Running
    /\ Top.phase = "pruned"
    /\ \A d \in Calls : ~SameMatter(heap, stack[d].state, Top.state)

(***************************************************************************)
(* C8: after a recycle of a waste holding w, the |w| draws that follow it  *)
(* with no removal in between leave the deck empty and a waste that holds  *)
(* the cards of w in the reverse order.                                    *)
(***************************************************************************)
DrawKinds == {"Draw", "Draw and remove King"}

\* Frame d recycles its waste and the Len(waste) calls below it are draws.
RecycledAndDrawnBack(d) ==
    LET n == Len(stack[d].state.Waste) IN
    /\ d + 1 + n <= Len(stack)
    /\ LastMove(stack[d + 1].state).kind = "Recycle"
    /\ \A k \in 1..n : LastMove(stack[d + 1 + k].state).kind \in DrawKinds

C8_RoundTripReversed ==
    \A d \in Calls :
        RecycledAndDrawnBack(d) =>
            LET w == stack[d].state.Waste
                after == stack[d + 1 + Len(w)].state
            IN /\ after.Waste = Reverse(w)
               /\ after.Deck = <<>>
               /\ Pyr(heap, after) = Pyr(heap, stack[d].state)

\* A waste of two cards or more has been recycled and drawn back.
C8_Witness ==
    \E d \in Calls : RecycledAndDrawnBack(d) /\ Len(stack[d].state.Waste) >= 2

\* C8 as the claim states it: the draws reproduce w itself.
C8_RoundTripOriginal ==
    \A d \in Calls :
        RecycledAndDrawnBack(d) =>
            stack[d + 1 + Len(stack[d].state.Waste)].state.Waste = stack[d].state.Waste

(***************************************************************************)
(* C9: a draw takes exactly the front card of the deck and leaves the      *)
(* pyramid, hence the removed count, as it was; a drawn King is discarded  *)
(* and the waste is as it was, any other drawn card becomes the last       *)
(* element of the waste, the rest of the waste being as it was.            *)
(***************************************************************************)
C9_DrawEffect ==
    \A d \in Calls :
        LastMove(stack[d + 1].state).kind \in DrawKinds =>
            LET before == stack[d].state
                after == stack[d + 1].state
            IN /\ before.Deck # <<>>
               /\ after.Deck = Tail(before.Deck)
               /\ Pyr(heap, after) = Pyr(heap, before)
               /\ countRemoved(Pyr(heap, after)) = countRemoved(Pyr(heap, before))
               /\ stack[d + 1].bestResult.RemovedCount >= countRemoved(Pyr(heap, before))
               /\ IF getCardValue(before.Deck[1]) = 13
                  THEN /\ after.Waste = before.Waste
                       /\ LastMove(after).kind = "Draw and remove King"
                  ELSE /\ after.Waste = Append(before.Waste, before.Deck[1])
                       /\ LastMove(after).kind = "Draw"

\* A King is drawn over a waste that holds a card, after a draw that put one there.
C9_Witness ==
    \E d \in Calls :
        /\ LastMove(stack[d + 1].state).kind = "Draw and remove King"
        /\ stack[d].state.Waste # <<>>
        /\ LastMove(stack[d].state).kind = "Draw"

(***************************************************************************)
(* C10: no step of the search changes the Pyramid, Deck, Waste or Moves of *)
(* the state of a frame that stays on the stack: when a call returns, its  *)
(* caller's state is what it was on entry, and the next sibling is made    *)
(* from it.                                                                *)
(***************************************************************************)
StateValue(h, state) ==
    [Pyramid |-> Pyr(h, state), Deck |-> state.Deck, Waste |-> state.Waste,
     Moves |-> state.Moves]

C10_SiblingIsolation ==
    [][\A d \in 1..Len(stack) :
          d <= Len(stack') =>
              StateValue(heap', stack'[d].state) = StateValue(heap, stack[d].state)]_vars

\* A frame that has had a child remove cards is about to make its next child.
C10_Witness ==
    /\ Running
    /\ Top.bestResult.RemovedCount > countRemoved(Pyr(heap, Top.state))
    /\ NextMove(Top).kind \in {"king", "pair", "waste"}

(***************************************************************************)
(* C11: along every explored path an empty slot stays empty and an         *)
(* occupied slot holds the card it was dealt, so no card of Deck or Waste  *)
(* enters the pyramid; every card of a state is in exactly one of Pyramid, *)
(* Deck and Waste and is a card of the deal; the cards of Deck and Waste   *)
(* are cards of the initial deck.                                          *)
(***************************************************************************)
CardsOf(seq) == {seq[k] : k \in 1..Len(seq)}

PyramidCards(pyramid) == {CardAt(pyramid, rc) : rc \in {x \in Slots : Occupied(pyramid, x)}}

InitialDeckCards == CardsOf(SubSeq(cards, TotalSlots + 1, Len(cards)))

C11_CardsConserved ==
    \A e \in 1..Len(stack) :
        LET t == MatterOf(heap, stack[e].state) IN
        /\ \A d \in 1..e : \A rc \in Slots :
              ~Occupied(Pyr(heap, stack[d].state), rc) => ~Occupied(t.Pyramid, rc)
        /\ \A rc \in Slots :
              Occupied(t.Pyramid, rc) => CardAt(t.Pyramid, rc) = CardAt(buildPyramid(cards), rc)
        /\ PyramidCards(t.Pyramid) \cup CardsOf(t.Deck) \cup CardsOf(t.Waste) \subseteq CardsOf(cards)
        /\ Cardinality(PyramidCards(t.Pyramid) \cup CardsOf(t.Deck) \cup CardsOf(t.Waste))
              = (TotalSlots - EmptySlots(t.Pyramid)) + Len(t.Deck) + Len(t.Waste)
        /\ CardsOf(t.Deck) \cup CardsOf(t.Waste) \subseteq InitialDeckCards

\* A path that has emptied slots, paired a waste card away and recycled the rest.
C11_Witness ==
    /\ Running
    /\ EmptySlots(Pyr(heap, Top.state)) >= 2
    /\ Top.state.Deck # <<>>
    /\ \E k \in 1..Len(Top.state.Moves) : Top.state.Moves[k].kind = "Remove waste"
    /\ \E k \in 1..Len(Top.state.Moves) : Top.state.Moves[k].kind = "Recycle"

(***************************************************************************)
(* C12: the state solve starts from holds card r(r+1)/2 + c of the input   *)
(* (counted from 0) at slot (r,c), the cards after the pyramid's in Deck   *)
(* in input order, the first of them drawn first, an empty Waste and empty *)
(* Moves; the visited table is empty when the root call begins, so after   *)
(* its entry the table holds the root's key alone.                         *)
(***************************************************************************)
RootIsTheDeal(h, root) ==
    /\ Len(Pyr(h, root)) = NumRows
    /\ \A r \in 0..(NumRows - 1) :
          /\ Len(Pyr(h, root)[r + 1]) = r + 1
          /\ \A c \in 0..r : Pyr(h, root)[r + 1][c + 1] = cards[(r * (r + 1)) \div 2 + c + 1]
    /\ Len(root.Deck) = Len(cards) - TotalSlots
    /\ \A k \in 1..Len(root.Deck) : root.Deck[k] = cards[TotalSlots + k]
    /\ root.Waste = <<>>
    /\ root.Moves = <<>>

C12_InitialState ==
    /\ [](Len(stack) >= 1 => RootIsTheDeal(heap, stack[1].state))
    /\ [][pc = "start" =>
            /\ Len(stack') = 1
            /\ RootIsTheDeal(heap', stack'[1].state)
            /\ stack'[1].bestResult = Result(<<>>, 0)
            /\ DOMAIN visited' = {serializeState(heap', stack'[1].state)}]_vars

\* The root call has just been entered on a deal with a full deck.
C12_Witness ==
    /\ pc = "run"
    /\ Len(stack) = 1
    /\ Top.phase = "kings"
    /\ Top.i = 1
    /\ Len(Top.state.Deck) = MaxDeck
    /\ Cardinality(DOMAIN visited) = 1

(***************************************************************************)
(* C13: the children of an expanded node are, in this order, the removals  *)
(* of the exposed Kings, of the exposed pairs summing to 13, the pairings  *)
(* of the waste top, the draw when Deck is non-empty, the recycle when     *)
(* Deck is empty and Waste is not; exposed cards are taken bottom row      *)
(* first; a node returns only after its last child or with a full clear.   *)
(***************************************************************************)
\* The exposed slots, bottom row first, each row from the left.
RECURSIVE ExposedBottomUp(_, _, _)
ExposedBottomUp(pyramid, r, c) ==
    IF r < 0 THEN <<>>
    ELSE IF c > r THEN ExposedBottomUp(pyramid, r - 1, 0)
    ELSE (IF RuleExposed(pyramid, <<r, c>>) THEN << <<r, c>> >> ELSE <<>>)
            \o ExposedBottomUp(pyramid, r, c + 1)

ValueAt(pyramid, rc) == getCardValue(CardAt(pyramid, rc))

NameAt(pyramid, rc) == formatCard(CardAt(pyramid, rc))

RECURSIVE KingMoves(_, _, _)
KingMoves(pyramid, xs, k) ==
    IF k > Len(xs) THEN <<>>
    ELSE (IF ValueAt(pyramid, xs[k]) = 13
          THEN <<Move("Remove", NameAt(pyramid, xs[k]), xs[k][1], xs[k][2], NoName, 0, 0)>>
          ELSE <<>>)
            \o KingMoves(pyramid, xs, k + 1)

RECURSIVE PairMoves(_, _, _, _)
PairMoves(pyramid, xs, a, b) ==
    IF a > Len(xs) THEN <<>>
    ELSE IF b > Len(xs) THEN PairMoves(pyramid, xs, a + 1, a + 2)
    ELSE (IF ValueAt(pyramid, xs[a]) + ValueAt(pyramid, xs[b]) = 13
          THEN <<Move("Remove pair", NameAt(pyramid, xs[a]), xs[a][1], xs[a][2],
                      NameAt(pyramid, xs[b]), xs[b][1], xs[b][2])>>
          ELSE <<>>)
            \o PairMoves(pyramid, xs, a, b + 1)

RECURSIVE WasteMoves(_, _, _, _)
WasteMoves(pyramid, top, xs, k) ==
    IF k > Len(xs) THEN <<>>
    ELSE (IF getCardValue(top) + ValueAt(pyramid, xs[k]) = 13
          THEN <<Move("Remove waste", formatCard(top), 0, 0,
                      NameAt(pyramid, xs[k]), xs[k][1], xs[k][2])>>
          ELSE <<>>)
            \o WasteMoves(pyramid, top, xs, k + 1)

\* The moves of the children of a node with matter t, in the order of the claim.
ChildrenInOrder(t) ==
    LET xs == ExposedBottomUp(t.Pyramid, NumRows - 1, 0) IN
    KingMoves(t.Pyramid, xs, 1)
        \o PairMoves(t.Pyramid, xs, 1, 2)
        \o (IF t.Waste # <<>> THEN WasteMoves(t.Pyramid, t.Waste[Len(t.Waste)], xs, 1) ELSE <<>>)
        \o (IF t.Deck # <<>>
            THEN <<Move(IF getCardValue(t.Deck[1]) = 13 THEN "Draw and remove King" ELSE "Draw",
                        formatCard(t.Deck[1]), 0, 0, NoName, 0, 0)>>
            ELSE <<>>)
        \o (IF t.Deck = <<>> /\ t.Waste # <<>>
            THEN <<Move("Recycle", NoName, 0, 0, NoName, 0, 0)>>
            ELSE <<>>)

Expanded(f) == f.phase \notin {"terminal", "pruned"}

C13_ChildOrder ==
    /\ [](\A d \in Calls :
            LET order == ChildrenInOrder(MatterOf(heap, stack[d].state)) IN
            /\ Expanded(stack[d])
            /\ stack[d].calls \in 1..Len(order)
            /\ LastMove(stack[d + 1].state) = order[stack[d].calls])
    /\ [][(Running /\ Len(stack') < Len(stack) /\ Expanded(Top)) =>
            \/ Top.calls = Len(ChildrenInOrder(MatterOf(heap, Top.state)))
            \/ Top.bestResult.RemovedCount = TotalSlots]_vars

\* A node whose last child, a draw, is being explored after a King removal, a pair
\* removal and a waste pairing.
C13_Witness ==
    \E d \in Calls :
        LET order == ChildrenInOrder(MatterOf(heap, stack[d].state)) IN
        /\ stack[d].calls = Len(order)
        /\ \E k \in 1..Len(order) : order[k].kind = "Remove"
        /\ \E k \in 1..Len(order) : order[k].kind = "Remove pair"
        /\ \E k \in 1..Len(order) : order[k].kind = "Remove waste"
        /\ order[Len(order)].kind = "Draw"

(***************************************************************************)
(* C14: a call starts from its state's own (Moves, removed count); a       *)
(* child's Result replaces the best so far only when its RemovedCount is   *)
(* strictly larger, so the best is the largest count seen and, among equal *)
(* counts, the earliest found; what solve returns is the root's best; the  *)
(* best Moves always extend the state's own Moves.                         *)
(***************************************************************************)
IsPrefix(s, t) == Len(s) <= Len(t) /\ SubSeq(t, 1, Len(s)) = s

C14_BestResult ==
    /\ [](\A d \in 1..Len(stack) :
            LET f == stack[d]
                own == Result(f.state.Moves, EmptySlots(Pyr(heap, f.state)))
            IN /\ IsPrefix(f.state.Moves, f.bestResult.Moves)
               /\ f.bestResult.RemovedCount >= own.RemovedCount
               /\ (f.bestResult.RemovedCount = own.RemovedCount => f.bestResult = own)
               /\ (f.calls = 0 => f.bestResult = own))
    /\ [][(Running /\ Len(stack') = Len(stack) - 1) =>
            IF Len(stack) = 1
            THEN pc' = "done" /\ result' = Top.bestResult
            ELSE LET before == stack[Len(stack) - 1].bestResult
                     res == Top.bestResult
                     after == stack'[Len(stack')].bestResult
                 IN /\ after.RemovedCount = MaxOf({before.RemovedCount, res.RemovedCount})
                    /\ (res.RemovedCount > before.RemovedCount => after = res)
                    /\ (res.RemovedCount <= before.RemovedCount => after = before)]_vars

\* A child returns a Result that ties with the best an earlier child gave its caller.
C14_Witness ==
    /\ Running
    /\ Len(stack) >= 2
    /\ NextMove(Top).kind = "none"
    /\ Top.bestResult.RemovedCount = stack[Len(stack) - 1].bestResult.RemovedCount
    /\ stack[Len(stack) - 1].bestResult.Moves # stack[Len(stack) - 1].state.Moves
    /\ Top.bestResult # stack[Len(stack) - 1].bestResult

(***************************************************************************)
(* C15: a waste pairing is made only from a non-empty Waste; it pairs the  *)
(* last element of Waste with one exposed pyramid card summing to 13,      *)
(* removes exactly these two, and leaves Deck, the other Waste elements    *)
(* and their order, and every other slot as they were.                     *)
(***************************************************************************)
ChangedSlots(p, q) == {rc \in Slots : CardAt(p, rc) # CardAt(q, rc)}

C15_WasteIsLIFO ==
    \A d \in Calls :
        LastMove(stack[d + 1].state).kind = "Remove waste" =>
            LET before == MatterOf(heap, stack[d].state)
                after == MatterOf(heap, stack[d + 1].state)
                m == LastMove(stack[d + 1].state)
                n == Len(before.Waste)
            IN /\ n > 0
               /\ Len(after.Waste) = n - 1
               /\ \A k \in 1..(n - 1) : after.Waste[k] = before.Waste[k]
               /\ after.Deck = before.Deck
               /\ m.card1 = formatCard(before.Waste[n])
               /\ ChangedSlots(before.Pyramid, after.Pyramid) = {<<m.row2, m.col2>>}
               /\ RuleExposed(before.Pyramid, <<m.row2, m.col2>>)
               /\ ~Occupied(after.Pyramid, <<m.row2, m.col2>>)
               /\ getCardValue(before.Waste[n])
                    + getCardValue(CardAt(before.Pyramid, <<m.row2, m.col2>>)) = 13

\* The top of a waste of two cards is paired away while the card under it could
\* have been paired with an exposed card too.
C15_Witness ==
    \E d \in Calls :
        /\ LastMove(stack[d + 1].state).kind = "Remove waste"
        /\ Len(stack[d].state.Waste) >= 2
        /\ \E rc \in Slots :
              /\ RuleExposed(Pyr(heap, stack[d].state), rc)
              /\ getCardValue(stack[d].state.Waste[1])
                   + getCardValue(CardAt(Pyr(heap, stack[d].state), rc)) = 13

(***************************************************************************)
(* C16: a recycle is made only from a state with an empty Deck and a       *)
(* non-empty Waste; the new Deck is the Waste in reverse, the old waste    *)
(* top being the next card drawn; the new Waste is empty; the Pyramid is   *)
(* as it was, and so is the set of cards of Deck and Waste together.       *)
(***************************************************************************)
C16_RecycleEffect ==
    \A d \in Calls :
        LastMove(stack[d + 1].state).kind = "Recycle" =>
            LET before == MatterOf(heap, stack[d].state)
                after == MatterOf(heap, stack[d + 1].state)
                n == Len(before.Waste)
            IN /\ before.Deck = <<>>
               /\ n > 0
               /\ Len(after.Deck) = n
               /\ \A k \in 1..n : after.Deck[k] = before.Waste[n + 1 - k]
               /\ after.Deck[1] = before.Waste[n]
               /\ after.Waste = <<>>
               /\ after.Pyramid = before.Pyramid
               /\ CardsOf(after.Deck) \cup CardsOf(after.Waste)
                    = CardsOf(before.Deck) \cup CardsOf(before.Waste)

\* A waste of two cards or more is recycled.
C16_Witness ==
    \E d \in Calls :
        /\ LastMove(stack[d + 1].state).kind = "Recycle"
        /\ Len(stack[d].state.Waste) >= 2
        /\ stack[d].calls >= 2

(***************************************************************************)
(* C17: on a deal with no exposed King, no exposed pair summing to 13 and  *)
(* no deck, the search calls solveState on no child and returns the        *)
(* initial state's own Result: no move and RemovedCount 0.                 *)
(***************************************************************************)
ExposedInDeal == {rc \in Slots : RuleExposed(InitialMatter.Pyramid, rc)}

NoMoveDeal ==
    /\ InitialMatter.Deck = <<>>
    /\ \A rc \in ExposedInDeal : ValueAt(InitialMatter.Pyramid, rc) # 13
    /\ \A rc \in ExposedInDeal : \A rd \in ExposedInDeal :
          ValueAt(InitialMatter.Pyramid, rc) + ValueAt(InitialMatter.Pyramid, rd) # 13

NoChildExplored ==
    /\ Len(stack) <= 1
    /\ (Len(stack) = 1 => Top.calls = 0)
    /\ Cardinality(DOMAIN visited) <= 1

C17_NoMoveReturnsZero ==
    NoMoveDeal =>
        /\ NoChildExplored
        /\ (pc = "done" => result = Result(<<>>, 0))

\* The search of a deal without a move has returned.
C17_Witness ==
    /\ NoMoveDeal
    /\ pc = "done"
    /\ Cardinality(DOMAIN visited) = 1

\* C17 as the claim states it: the count returned is the number of slots minus the
\* number of exposed cards, none of which can be removed.
C17_NoMoveOriginal ==
    NoMoveDeal =>
        /\ NoChildExplored
        /\ (pc = "done" => result.RemovedCount = TotalSlots - Cardinality(ExposedInDeal))

(***************************************************************************)
(* C18: in every state of the search the empty slots are closed downwards: *)
(* under an empty slot above the bottom row both slots beneath are empty.  *)
(* A removal never takes a card that still has a card beneath it, and a    *)
(* pair never takes a card together with one that covers it.               *)
(***************************************************************************)
Beneath(rc) == {<<rc[1] + 1, rc[2]>>, <<rc[1] + 1, rc[2] + 1>>} \cap Slots

ClosedDownwards(pyramid) ==
    \A rc \in Slots : ~Occupied(pyramid, rc) => \A b \in Beneath(rc) : ~Occupied(pyramid, b)

C18_EmptyClosedDownwards ==
    /\ \A d \in 1..Len(stack) : ClosedDownwards(Pyr(heap, stack[d].state))
    /\ \A d \in Calls :
          LET m == LastMove(stack[d + 1].state) IN
          m.kind = "Remove pair" =>
              /\ <<m.row1, m.col1>> \notin Beneath(<<m.row2, m.col2>>)
              /\ <<m.row2, m.col2>> \notin Beneath(<<m.row1, m.col1>>)

\* A pair is removed that takes a card above the bottom row.
C18_Witness ==
    \E d \in Calls :
        LET m == LastMove(stack[d + 1].state) IN
        /\ m.kind = "Remove pair"
        /\ (m.row1 < NumRows - 1 \/ m.row2 < NumRows - 1)
        /\ ClosedDownwards(Pyr(heap, stack[d + 1].state))

(***************************************************************************)
(* C19: the visited table maps each key to the number of empty slots of    *)
(* the pyramid written in the key; an entry is never changed or removed; a *)
(* call that arrives with a stored key is pruned, and a call is expanded   *)
(* only with a key the table does not hold yet, which it then stores: each *)
(* triple is expanded at most once.                                        *)
(***************************************************************************)
\* The number of "XX" among the slots a key writes before its first "|".
RECURSIVE EmptyInKey(_, _)
EmptyInKey(key, k) ==
    IF k > Len(key) \/ key[k] = "|" THEN 0
    ELSE IF key[k] = "X" THEN 1 + EmptyInKey(key, k + 2)
    ELSE EmptyInKey(key, k + 1)

C19_VisitedCounts ==
    /\ [](\A key \in DOMAIN visited : visited[key] = EmptyInKey(key, 1))
    /\ [][pruning =>
            /\ \A key \in DOMAIN visited : key \in DOMAIN visited' /\ visited'[key] = visited[key]
            /\ Len(stack') = Len(stack) + 1 =>
                  LET new == stack'[Len(stack')]
                      key == KeyOf(MatterOf(heap', new.state))
                      empty == EmptySlots(Pyr(heap', new.state))
                  IN IF empty = TotalSlots
                     THEN new.phase = "terminal" /\ visited' = visited
                     ELSE IF key \in DOMAIN visited
                     THEN /\ new.phase = "pruned"
                          /\ visited[key] >= empty
                          /\ visited' = visited
                     ELSE /\ Expanded(new)
                          /\ DOMAIN visited' = DOMAIN visited \cup {key}
                          /\ visited'[key] = empty]_vars

\* A call arrives with a key stored with two or more removed cards and is pruned.
C19_Witness ==
    /\ Running
    /\ Top.phase = "pruned"
    /\ visited[KeyOf(MatterOf(heap, Top.state))] >= 2
    /\ Cardinality(DOMAIN visited) >= 5

(***************************************************************************)
(* C20: on a deal of valid cards no Waste ever holds a King, so no Deck    *)
(* made by a recycle holds one; a waste pairing never removes a pyramid    *)
(* card of value 0 or 13; a pyramid King leaves the pyramid by the         *)
(* single-King move only.                                                  *)
(***************************************************************************)
ValidDeal == \A k \in 1..Len(cards) : getCardValue(cards[k]) \in 1..13

NoKingIn(seq) == \A k \in 1..Len(seq) : getCardValue(seq[k]) # 13

C20_NoKingInWaste ==
    ValidDeal =>
        /\ \A d \in 1..Len(stack) : NoKingIn(stack[d].state.Waste)
        /\ \A d \in Calls :
              LET before == MatterOf(heap, stack[d].state)
                  after == MatterOf(heap, stack[d + 1].state)
                  m == LastMove(stack[d + 1].state)
                  gone == ChangedSlots(before.Pyramid, after.Pyramid)
              IN /\ (m.kind = "Recycle" => NoKingIn(after.Deck))
                 /\ (m.kind = "Remove waste" =>
                        \A rc \in gone : ValueAt(before.Pyramid, rc) \notin {0, 13})
                 /\ \A rc \in gone :
                        ValueAt(before.Pyramid, rc) = 13 => (m.kind = "Remove" /\ gone = {rc})

\* A deck that held a King is recycled: the King was dropped as it was drawn.
C20_Witness ==
    /\ ValidDeal
    /\ Running
    /\ Top.state.Moves # <<>>
    /\ LastMove(Top.state).kind = "Recycle"
    /\ Top.state.Deck # <<>>
    /\ \E k \in 1..Len(Top.state.Moves) : Top.state.Moves[k].kind = "Draw and remove King"

====
